---- MODULE Spec2Model ----
(***************************************************************************)
(* A model of telethon/telegram_client.py (class TelegramClient).          *)
(*                                                                         *)
(* The client is single threaded.  Every method runs until it blocks on an *)
(* external collaborator (the authenticator, or the sender's receive of a  *)
(* response); the answer of the collaborator is an input of the model.     *)
(* One action is therefore one stretch of code between two such answers,   *)
(* and the calls a method makes (connect from reconnect_to_dc,             *)
(* reconnect_to_dc from send_code_request) are part of the same action.    *)
(* `stack` holds the frames of the methods that are waiting, `pc` says     *)
(* which answer the top frame is waiting for.                              *)
(***************************************************************************)
EXTENDS Integers, Sequences, FiniteSets, TLC

VARIABLES
    session,            \* self.session: auth_key, time_offset, server_address, port, user
    saved,              \* what the last session.save() wrote (the persisted Session)
    transport,          \* self.transport: the TcpTransport object currently held
    closed,             \* ids of the transports on which close() was called
    sender,             \* self.sender: "None" or the MtProtoSender object
    dc_options,         \* self.dc_options: "None" or the list of the last config
    phone_code_hashes,  \* self.phone_code_hashes
    stack,              \* frames of the running call, outermost first
    pc,                 \* "idle", or the external answer the top frame waits for
    inflight,           \* the request handed to the sender and not yet answered
    result,             \* how the last finished top-level call ended
    trace,              \* what the running (or last) top-level call did, in order
    entry,              \* the client as it was when that call began
    nauth,              \* keys negotiated so far (names the next fresh key)
    ntransports,        \* transports created so far (names the next transport)
    ncalls,             \* top-level calls made so far
    nredirects,         \* redirect answers given so far
    up,                 \* upload_file: its locals and the file it reads
    down,               \* download_file_loc: its locals and the file it writes
    util                \* the utilities: the last call, its arguments and what it gave

vars == <<session, saved, transport, closed, sender, dc_options, phone_code_hashes,
          stack, pc, inflight, result, trace, entry, nauth, ntransports, ncalls,
          nredirects, up, down, util>>

----------------------------------------------------------------------------
\* Bounds of the model.

\* top-level calls the application makes in one run
MaxCalls == 3
\* redirect (InvalidDCError) answers the servers give in one run
MaxRedirects == 2

----------------------------------------------------------------------------
\* Values.

\* Python's None, and a list object (None and [] are different values).
None == [py |-> "None"]
PyList(items) == [py |-> "list", items |-> items]
\* A str object, where None may stand in its place.
PyStr(s) == [py |-> "str", s |-> s]

\* DataCenterOption objects of a help.getConfig answer: id, ip_address, port.
DcOption(id, ip, port) == [id |-> id, ip_address |-> ip, port |-> port]
DC1 == DcOption(1, "149.154.175.50", 443)
DC2 == DcOption(2, "149.154.167.51", 443)
DC2alt == DcOption(2, "149.154.167.91", 80)

\* The dc_options lists a configuration answer may carry: an empty one, and
\* one with two entries of the same id.
DcLists == { PyList(<<>>), PyList(<<DC1, DC2, DC2alt>>) }

\* The data-center ids the application may ask for, and those a redirect may
\* name; 3 is in no list.
DcIds == {1, 2, 3}
RedirectIds == {2, 3}

Phones == {"+34600000001", "+34600000002"}
Hashes == {"hash_a", "hash_b"}
Codes == {"12345"}
Users == {[py |-> "User", id |-> 7]}

\* Error messages, as the strings they are (one element per character).
PHONE_CODE_ == <<"P","H","O","N","E","_","C","O","D","E","_">>
MsgPhoneCodeInvalid == PHONE_CODE_ \o <<"I","N","V","A","L","I","D">>
MsgPhoneCodeExpired == PHONE_CODE_ \o <<"E","X","P","I","R","E","D">>
MsgPhoneCode == <<"P","H","O","N","E","_","C","O","D","E">>
MsgPhoneNumberInvalid == <<"P","H","O","N","E","_","N","U","M","B","E","R","_","I","N","V","A","L","I","D">>
MsgInternal == <<"I","N","T","E","R","N","A","L">>

\* str.startswith
startswith(s, prefix) ==
    /\ Len(s) >= Len(prefix)
    /\ SubSeq(s, 1, Len(prefix)) = prefix

\* Exceptions.
RPCError(message) == [py |-> "exception", cls |-> "RPCError", message |-> message, new_dc |-> 0]
InvalidDCError(new_dc) ==
    [py |-> "exception", cls |-> "InvalidDCError", message |-> <<>>, new_dc |-> new_dc]
PyError(cls) == [py |-> "exception", cls |-> cls, message |-> <<>>, new_dc |-> 0]

\* `except RPCError`: InvalidDCError is a class of its own, not an RPCError.
IsRPCError(exc) == exc.cls = "RPCError"
\* `except InvalidDCError`
IsInvalidDCError(exc) == exc.cls = "InvalidDCError"

\* Requests (MTProtoRequest subclasses) and a value that is none.
Request(cls, arg) == [py |-> "object", cls |-> cls, arg |-> arg, is_request |-> TRUE]
InitRequest == Request("InvokeWithLayerRequest", "InitConnectionRequest(GetConfigRequest)")
SendCodeRequest(phone_number) == Request("SendCodeRequest", phone_number)
SignInRequest(phone_number, phone_code_hash, code) ==
    Request("SignInRequest", <<phone_number, phone_code_hash, code>>)
GetDialogsRequest == Request("GetDialogsRequest", "limit=10")
NotARequest == [py |-> "object", cls |-> "str", arg |-> "hello", is_request |-> FALSE]

\* The key the authenticator negotiates over transport t: bound to the data
\* center t is connected to, and fresh (n keys were negotiated before).
AuthKey(t, n) == [py |-> "bytes", dc |-> t.address, n |-> n + 1]
\* The clock offset measured in the same negotiation.
TimeOffset(n) == 0 - (n + 1)

----------------------------------------------------------------------------
\* The client as one record, so that the code of a method is an operator from
\* the state it is called in to the state in which it blocks or ends.

Self == [session |-> session, saved |-> saved, transport |-> transport,
         closed |-> closed, sender |-> sender, dc_options |-> dc_options,
         phone_code_hashes |-> phone_code_hashes, stack |-> stack, pc |-> pc,
         inflight |-> inflight, result |-> result, trace |-> trace, entry |-> entry,
         nauth |-> nauth, ntransports |-> ntransports, ncalls |-> ncalls,
         nredirects |-> nredirects]

Become(s) ==
    /\ session' = s.session
    /\ saved' = s.saved
    /\ transport' = s.transport
    /\ closed' = s.closed
    /\ sender' = s.sender
    /\ dc_options' = s.dc_options
    /\ phone_code_hashes' = s.phone_code_hashes
    /\ stack' = s.stack
    /\ pc' = s.pc
    /\ inflight' = s.inflight
    /\ result' = s.result
    /\ trace' = s.trace
    /\ entry' = s.entry
    /\ nauth' = s.nauth
    /\ ntransports' = s.ntransports
    /\ ncalls' = s.ncalls
    /\ nredirects' = s.nredirects

Event(e, a, b) == [e |-> e, a |-> a, b |-> b]
Log(s, ev) == [s EXCEPT !.trace = Append(@, ev)]

Frame(fn, arg) == [fn |-> fn, arg |-> arg]
Push(s, fn, arg) == [s EXCEPT !.stack = Append(@, Frame(fn, arg))]
Pop(s) == [s EXCEPT !.stack = SubSeq(@, 1, Len(@) - 1)]
Top(s) == s.stack[Len(s.stack)]

\* The client's fields, as a call finds them.
Snapshot(s) == [session |-> s.session, saved |-> s.saved, transport |-> s.transport,
                sender |-> s.sender, dc_options |-> s.dc_options,
                phone_code_hashes |-> s.phone_code_hashes, nauth |-> s.nauth]

\* The application calls a method: a new top-level call begins.
StartCall(s) == [s EXCEPT !.trace = <<>>, !.result = None, !.ncalls = @ + 1,
                          !.entry = Snapshot(s)]

\* sender.receive(request) returns with request.result = value, or raises
received(s, value) == Log(s, Event("receive", s.inflight, value))
receive_raises(s, exc) ==
    [Log(s, Event("receive raises", s.inflight, exc)) EXCEPT !.inflight = None]

\* The outermost frame returns to the application (value: the text of the
\* returned value) or raises into it.
Returns(s, fn, value) ==
    [s EXCEPT !.pc = "idle", !.stack = <<>>, !.inflight = None,
              !.result = [py |-> "result", fn |-> fn, kind |-> "return",
                          value |-> value, exc |-> None]]
Raises(s, fn, exc) ==
    [s EXCEPT !.pc = "idle", !.stack = <<>>, !.inflight = None,
              !.result = [py |-> "result", fn |-> fn, kind |-> "raise",
                          value |-> "", exc |-> exc]]

\* session.save()
Save(s) == Log([s EXCEPT !.saved = s.session], Event("save", s.session, None))

----------------------------------------------------------------------------
\* invoke (lines 122-130) and the sender.

\* MtProtoSender(self.transport, self.session): the sender keeps the transport
\* object it was built with, and the session object (by reference).
MtProtoSender(t) == [py |-> "MtProtoSender", transport |-> t.id,
                     listen_for_updates |-> FALSE, disconnected |-> FALSE]

\* What invoke raises before anything is handed to the sender: the type check
\* of line 124, then `self.sender.send` on a sender that is still None.
invoke_error(s, request) ==
    IF ~request.is_request THEN PyError("ValueError")
    ELSE IF s.sender = None THEN PyError("AttributeError")
    ELSE None

\* self.sender.send(request), then self.sender.receive(request) blocks: the
\* frame waits at `wait` for the answer.  The event keeps the transport the
\* sender writes to and the key of the session it encrypts with.
sender_send(s, request, wait) ==
    [Log(s, Event("send", request,
                  [transport |-> s.sender.transport, auth_key |-> s.session.auth_key]))
       EXCEPT !.pc = wait, !.inflight = request]

----------------------------------------------------------------------------
\* send_code_request (lines 139-150): one turn of its loop, up to the answer.

send_code_request_raises(s, exc) ==
    Raises(Log(s, Event("raise send_code_request", exc, None)), "send_code_request", exc)

\* line 145: result = self.invoke(request)
send_code_request_loop(s) ==
    LET request == SendCodeRequest(Top(s).arg)
        err == invoke_error(s, request)
    IN  IF err # None THEN send_code_request_raises(s, err)
        ELSE sender_send(s, request, "send_code")

----------------------------------------------------------------------------
\* reconnect_to_dc (lines 98-111) and connect (lines 66-96).

\* reconnect_to_dc returns (None) to its caller: the application, or the
\* except clause of send_code_request, whose loop then runs again.
reconnect_to_dc_returns(s) ==
    LET s1 == Log(Pop(s), Event("return reconnect_to_dc", "None", None))
    IN  IF s1.stack = <<>> THEN Returns(s1, "reconnect_to_dc", "None")
        ELSE send_code_request_loop(s1)

\* reconnect_to_dc raises: into the application, or into the except clause of
\* send_code_request, which does not catch what is raised inside it.
reconnect_to_dc_raises(s, exc) ==
    LET s1 == Log(Pop(s), Event("raise reconnect_to_dc", exc, None))
    IN  IF s1.stack = <<>> THEN Raises(s1, "reconnect_to_dc", exc)
        ELSE send_code_request_raises(s1, exc)

\* connect returns True or False: to the application, or to line 111 of
\* reconnect_to_dc, which drops the value and returns.
connect_returns(s, value) ==
    LET s1 == Log(Pop(s), Event("return connect", value, None))
    IN  IF s1.stack = <<>> THEN Returns(s1, "connect", value)
        ELSE reconnect_to_dc_returns(s1)

\* connect lets an exception through (one its `except RPCError` does not catch).
connect_raises(s, exc) ==
    LET s1 == Log(Pop(s), Event("raise connect", exc, None))
    IN  IF s1.stack = <<>> THEN Raises(s1, "connect", exc)
        ELSE reconnect_to_dc_raises(s1, exc)

\* Mutant: no except clause, every exception leaves connect.
connect_except_reraises(s, exc) == connect_raises(s, exc)

\* lines 94-96: the except clause of connect
connect_except(s, exc) ==
    IF IsRPCError(exc) THEN connect_returns(s, "False") ELSE connect_raises(s, exc)

\* lines 77-88: build the sender, send the initialization request
connect_build_sender(s) ==
    LET s1 == Log([s EXCEPT !.sender = MtProtoSender(s.transport)],
                  Event("MtProtoSender", s.transport.id, None))
        err == invoke_error(s1, InitRequest)
    IN  IF err # None THEN connect_except(s1, err)
        ELSE sender_send(s1, InitRequest, "init_connection")

\* Mutant: a present key is kept even when reconnect is set.
connect_needs_auth_ignores_reconnect(s, reconnect) == s.session.auth_key = None
\* Mutant: only reconnect decides, a missing key is not looked at.
connect_needs_auth_only_reconnect(s, reconnect) == reconnect

\* line 71: is the authenticator needed
connect_needs_auth(s, reconnect) == s.session.auth_key = None \/ reconnect

\* lines 70-73: connect up to the answer of the authenticator, or, with a
\* key and no reconnect, lines 77-88 up to the answer of the server
connect(s, reconnect) ==
    LET s1 == Log(Push(s, "connect", reconnect), Event("call connect", reconnect, s.session))
    IN  IF connect_needs_auth(s1, reconnect)
        THEN [Log(s1, Event("do_authentication", s1.transport.id, None))
                EXCEPT !.pc = "do_authentication"]
        ELSE connect_build_sender(s1)

\* lines 72-77: the authenticator returned (auth_key, time_offset)
connect_authenticated(s, auth_key, time_offset) ==
    LET s1 == [s EXCEPT !.session.auth_key = auth_key,
                        !.session.time_offset = time_offset,
                        !.nauth = @ + 1]
    IN  connect_build_sender(Save(s1))

\* lines 88-93: the configuration arrived
connect_configured(s, config) ==
    connect_returns(Log([s EXCEPT !.dc_options = config, !.inflight = None],
                        Event("dc_options", config, None)), "True")

\* line 103: next(dc for dc in self.dc_options if dc.id == dc_id)
HasDc(options, dc_id) == \E i \in 1..Len(options) : options[i].id = dc_id
\* Mutant: the last option with the id instead of the first.
FindDc_last(options, dc_id) ==
    LET last == CHOOSE i \in 1..Len(options) :
                    /\ options[i].id = dc_id
                    /\ \A j \in (i + 1)..Len(options) : options[j].id # dc_id
    IN  options[last]

FindDc(options, dc_id) ==
    LET first == CHOOSE i \in 1..Len(options) :
                    /\ options[i].id = dc_id
                    /\ \A j \in 1..(i - 1) : options[j].id # dc_id
    IN  options[first]

\* TcpTransport(ip_address, port): a new transport object
TcpTransport(id, address, port) == [id |-> id, address |-> address, port |-> port]

\* Mutant: the new address is written to the session and not saved.
reconnect_to_dc_switch_unsaved(s, dc) ==
    LET s1 == Log([s EXCEPT !.closed = @ \cup {s.transport.id}],
                  Event("close", s.transport.id, None))
        t == [id |-> s1.ntransports + 1, address |-> dc.ip_address, port |-> dc.port]
        s2 == Log([s1 EXCEPT !.transport = t, !.ntransports = @ + 1],
                  Event("TcpTransport", t, None))
    IN  [s2 EXCEPT !.session.server_address = dc.ip_address, !.session.port = dc.port]

\* lines 105-109: close, reopen, record the address and save
reconnect_to_dc_switch(s, dc) ==
    LET s1 == Log([s EXCEPT !.closed = @ \cup {s.transport.id}],
                  Event("close", s.transport.id, None))
        t == TcpTransport(s1.ntransports + 1, dc.ip_address, dc.port)
        s2 == Log([s1 EXCEPT !.transport = t, !.ntransports = @ + 1],
                  Event("TcpTransport", t, None))
        s3 == [s2 EXCEPT !.session.server_address = dc.ip_address,
                         !.session.port = dc.port]
    IN  Save(s3)

\* Mutant: the transport is closed before the options are looked at.
reconnect_to_dc_closes_first(s, dc_id) ==
    LET s1 == Log(Push(s, "reconnect_to_dc", dc_id),
                  Event("call reconnect_to_dc", dc_id, s.dc_options))
        s2 == Log([s1 EXCEPT !.closed = @ \cup {s1.transport.id}],
                  Event("close", s1.transport.id, None))
    IN  IF s1.dc_options = None \/ s1.dc_options.items = <<>>
        THEN reconnect_to_dc_raises(s2, PyError("ConnectionError"))
        ELSE IF ~HasDc(s1.dc_options.items, dc_id)
        THEN reconnect_to_dc_raises(s2, PyError("StopIteration"))
        ELSE connect(reconnect_to_dc_switch(s1, FindDc(s1.dc_options.items, dc_id)), TRUE)

\* lines 98-111
reconnect_to_dc(s, dc_id) ==
    LET s1 == Log(Push(s, "reconnect_to_dc", dc_id),
                  Event("call reconnect_to_dc", dc_id, s.dc_options))
    IN  IF s1.dc_options = None \/ s1.dc_options.items = <<>>
        THEN reconnect_to_dc_raises(s1, PyError("ConnectionError"))
        ELSE IF ~HasDc(s1.dc_options.items, dc_id)
        THEN reconnect_to_dc_raises(s1, PyError("StopIteration"))
        ELSE connect(reconnect_to_dc_switch(s1, FindDc(s1.dc_options.items, dc_id)), TRUE)

----------------------------------------------------------------------------
\* send_code_request (lines 139-150): the answers to its request.

\* dict[key] = value
DictSet(d, key, value) ==
    [k \in DOMAIN d \cup {key} |-> IF k = key THEN value ELSE d[k]]

\* lines 146-147 and the end of the loop: the request succeeded
send_code_request_completed(s, phone_code_hash) ==
    LET phone_number == Top(s).arg
        s1 == Log([s EXCEPT !.phone_code_hashes = DictSet(@, phone_number, phone_code_hash)],
                  Event("phone_code_hashes", phone_number, phone_code_hash))
    IN  Returns(Log(Pop(s1), Event("return send_code_request", "None", None)),
                "send_code_request", "None")

\* Mutant: the except clause reconnects to data center 1, whatever the error names.
send_code_request_except_fixed_dc(s, exc) ==
    IF IsInvalidDCError(exc) THEN reconnect_to_dc(s, 1)
    ELSE send_code_request_raises(s, exc)

\* lines 149-150: the receive raised
send_code_request_except(s, exc) ==
    IF IsInvalidDCError(exc) THEN reconnect_to_dc(s, exc.new_dc)
    ELSE send_code_request_raises(s, exc)

\* lines 139-145: the call, up to the first answer
send_code_request(s, phone_number) ==
    send_code_request_loop(
        Log(Push(s, "send_code_request", phone_number),
            Event("call send_code_request", phone_number, None)))

----------------------------------------------------------------------------
\* make_auth (lines 152-175).

make_auth_raises(s, exc) ==
    Raises(Log(Pop(s), Event("raise make_auth", exc, None)), "make_auth", exc)
make_auth_returns(s, value) ==
    Returns(Log(Pop(s), Event("return make_auth", value, None)), "make_auth", value)

\* Mutant: every error that starts with PHONE_ is taken for a wrong code.
make_auth_except_any_phone_error(s, exc) ==
    IF IsRPCError(exc)
    THEN IF startswith(exc.message, SubSeq(PHONE_CODE_, 1, 6))
         THEN make_auth_returns(s, "False")
         ELSE make_auth_raises(s, exc)
    ELSE make_auth_raises(s, exc)

\* lines 161-166: the except clause
make_auth_except(s, exc) ==
    IF IsRPCError(exc)
    THEN IF startswith(exc.message, PHONE_CODE_)
         THEN make_auth_returns(s, "False")
         ELSE make_auth_raises(s, exc)
    ELSE make_auth_raises(s, exc)

\* Mutant: a phone number without a stored token is not refused; the
\* request leaves with no token.
make_auth_unchecked(s, phone_number, code) ==
    LET s1 == Log(Push(s, "make_auth", phone_number),
                  Event("call make_auth", phone_number, code))
        phone_code_hash == IF phone_number \in DOMAIN s1.phone_code_hashes
                           THEN s1.phone_code_hashes[phone_number] ELSE ""
    IN  IF s1.sender = None
        THEN make_auth_except(s1, PyError("AttributeError"))
        ELSE sender_send(s1, SignInRequest(phone_number, phone_code_hash, code), "sign_in")

\* lines 154-160: the call, up to the answer to the sign-in request.  The
\* request goes to self.sender directly, not through invoke.
make_auth(s, phone_number, code) ==
    LET s1 == Log(Push(s, "make_auth", phone_number),
                  Event("call make_auth", phone_number, code))
    IN  IF phone_number \notin DOMAIN s1.phone_code_hashes
        THEN make_auth_raises(s1, PyError("ValueError"))
        ELSE IF s1.sender = None
        THEN make_auth_except(s1, PyError("AttributeError"))
        ELSE sender_send(s1,
                 SignInRequest(phone_number, s1.phone_code_hashes[phone_number], code),
                 "sign_in")

\* Mutant: a sign-in that succeeded drops the token it used.
make_auth_signed_in_forgets(s, user) ==
    LET phone_number == Top(s).arg
        s1 == Save([s EXCEPT !.session.user = user,
                             !.phone_code_hashes =
                                 [k \in DOMAIN @ \ {phone_number} |-> @[k]]])
        s2 == Log([s1 EXCEPT !.sender.listen_for_updates = TRUE],
                  Event("set_listen_for_updates", TRUE, None))
    IN  make_auth_returns(s2, "True")

\* lines 169-175: the sign-in succeeded, request.result.user is `user`
make_auth_signed_in(s, user) ==
    LET s1 == Save([s EXCEPT !.session.user = user])
        s2 == Log([s1 EXCEPT !.sender.listen_for_updates = TRUE],
                  Event("set_listen_for_updates", TRUE, None))
    IN  make_auth_returns(s2, "True")

----------------------------------------------------------------------------
\* invoke called by the application (lines 122-130), and disconnect (113-116).

\* Mutant: no test of the type of the request.
invoke_unchecked(s, request) ==
    LET s1 == Log(Push(s, "invoke", request.cls), Event("call invoke", request, None))
    IN  IF s1.sender = None
        THEN Raises(Log(Pop(s1), Event("raise invoke", PyError("AttributeError"), None)),
                    "invoke", PyError("AttributeError"))
        ELSE sender_send(s1, request, "invoke")

\* lines 122-128
invoke(s, request) ==
    LET s1 == Log(Push(s, "invoke", request.cls), Event("call invoke", request, None))
        err == invoke_error(s1, request)
    IN  IF err # None
        THEN Raises(Log(Pop(s1), Event("raise invoke", err, None)), "invoke", err)
        ELSE sender_send(s1, request, "invoke")

invoke_returns(s, value) ==
    Returns(Log(Pop(s), Event("return invoke", value, None)), "invoke", value)
invoke_raises(s, exc) ==
    Raises(Log(Pop(s), Event("raise invoke", exc, None)), "invoke", exc)

disconnect(s) ==
    LET s1 == Log(s, Event("call disconnect", None, None))
        s2 == IF s1.sender # None
              THEN Log([s1 EXCEPT !.sender.disconnected = TRUE],
                       Event("sender.disconnect", s1.sender.transport, None))
              ELSE s1
    IN  Returns(s2, "disconnect", "None")

----------------------------------------------------------------------------
\* The state after __init__ (lines 37-60).

\* Session.try_load_or_create_new: a new Session, or the one a former run
\* saved (with a key for the data center it names, and perhaps a user).
DefaultAddress == "91.108.56.165"
NewSession == [auth_key |-> None, time_offset |-> 0, server_address |-> DefaultAddress,
               port |-> 443, user |-> None]
LoadedSessions ==
    { [NewSession EXCEPT !.auth_key = [py |-> "bytes", dc |-> DefaultAddress, n |-> 0],
                         !.time_offset = 2, !.user = u] : u \in {None} \cup Users }

UpIdle == [pc |-> "idle"]
DownIdle == [pc |-> "idle"]
UtilIdle == [pc |-> "idle"]

InitClient ==
    /\ session \in {NewSession} \cup LoadedSessions
    /\ saved = session
    /\ transport = TcpTransport(1, session.server_address, session.port)
    /\ closed = {}
    /\ sender = None
    /\ dc_options = None
    /\ phone_code_hashes = <<>>
    /\ stack = <<>>
    /\ pc = "idle"
    /\ inflight = None
    /\ result = None
    /\ trace = <<>>
    /\ nauth = 0
    /\ ntransports = 1
    /\ ncalls = 0
    /\ nredirects = 0
    /\ entry = [session |-> session, saved |-> saved, transport |-> transport,
                sender |-> sender, dc_options |-> dc_options,
                phone_code_hashes |-> phone_code_hashes, nauth |-> nauth]

Init ==
    /\ InitClient
    /\ up = UpIdle
    /\ down = DownIdle
    /\ util = UtilIdle

----------------------------------------------------------------------------
\* The application's calls.

CanCall == pc = "idle" /\ ncalls < MaxCalls

Call_connect ==
    /\ CanCall
    /\ \E reconnect \in BOOLEAN : Become(connect(StartCall(Self), reconnect))
    /\ UNCHANGED <<up, down, util>>

Call_reconnect_to_dc ==
    /\ CanCall
    /\ \E dc_id \in DcIds : Become(reconnect_to_dc(StartCall(Self), dc_id))
    /\ UNCHANGED <<up, down, util>>

Call_send_code_request ==
    /\ CanCall
    /\ \E phone_number \in Phones : Become(send_code_request(StartCall(Self), phone_number))
    /\ UNCHANGED <<up, down, util>>

Call_make_auth ==
    /\ CanCall
    /\ \E phone_number \in Phones, code \in Codes :
          Become(make_auth(StartCall(Self), phone_number, code))
    /\ UNCHANGED <<up, down, util>>

Call_invoke ==
    /\ CanCall
    /\ \E request \in {GetDialogsRequest, NotARequest} :
          Become(invoke(StartCall(Self), request))
    /\ UNCHANGED <<up, down, util>>

Call_disconnect ==
    /\ CanCall
    /\ Become(disconnect(StartCall(Self)))
    /\ UNCHANGED <<up, down, util>>

\* The answers of the authenticator and of the servers.

Authenticated ==
    /\ pc = "do_authentication"
    /\ Become(connect_authenticated(
                  Log(Self, Event("do_authentication returns", AuthKey(transport, nauth),
                                  TimeOffset(nauth))),
                  AuthKey(transport, nauth), TimeOffset(nauth)))
    /\ UNCHANGED <<up, down, util>>

AuthenticationFails ==
    /\ pc = "do_authentication"
    /\ Become(connect_except(
                  Log(Self, Event("do_authentication raises", RPCError(MsgInternal), None)),
                  RPCError(MsgInternal)))
    /\ UNCHANGED <<up, down, util>>

Configured ==
    /\ pc = "init_connection"
    /\ \E config \in DcLists :
          Become(connect_configured(received(Self, config), config))
    /\ UNCHANGED <<up, down, util>>

ConfigurationFails ==
    /\ pc = "init_connection"
    /\ \E exc \in {RPCError(MsgInternal), InvalidDCError(2)} :
          Become(connect_except(receive_raises(Self, exc), exc))
    /\ UNCHANGED <<up, down, util>>

CodeSent ==
    /\ pc = "send_code"
    /\ \E phone_code_hash \in Hashes :
          Become(send_code_request_completed(received(Self, phone_code_hash),
                                             phone_code_hash))
    /\ UNCHANGED <<up, down, util>>

CodeRedirected ==
    /\ pc = "send_code"
    /\ nredirects < MaxRedirects
    /\ \E new_dc \in RedirectIds :
          Become(send_code_request_except(
                     receive_raises([Self EXCEPT !.nredirects = @ + 1], InvalidDCError(new_dc)),
                     InvalidDCError(new_dc)))
    /\ UNCHANGED <<up, down, util>>

CodeFails ==
    /\ pc = "send_code"
    /\ Become(send_code_request_except(
                  receive_raises(Self, RPCError(MsgPhoneNumberInvalid)),
                  RPCError(MsgPhoneNumberInvalid)))
    /\ UNCHANGED <<up, down, util>>

SignedIn ==
    /\ pc = "sign_in"
    /\ \E user \in Users :
          Become(make_auth_signed_in(received(Self, user), user))
    /\ UNCHANGED <<up, down, util>>

SignInErrors ==
    { RPCError(m) : m \in {MsgPhoneCodeInvalid, MsgPhoneCodeExpired, MsgPhoneCode,
                           MsgPhoneNumberInvalid} }
    \cup {InvalidDCError(2)}

SignInFails ==
    /\ pc = "sign_in"
    /\ \E exc \in SignInErrors :
          Become(make_auth_except(receive_raises(Self, exc), exc))
    /\ UNCHANGED <<up, down, util>>

\* request.result, as sender.receive recorded it
InvokeResults == {"messages.Dialogs", "messages.DialogsSlice"}

Invoked ==
    /\ pc = "invoke"
    /\ \E value \in InvokeResults : Become(invoke_returns(received(Self, value), value))
    /\ UNCHANGED <<up, down, util>>

InvokeFails ==
    /\ pc = "invoke"
    /\ \E exc \in {RPCError(MsgInternal), InvalidDCError(2)} :
          Become(invoke_raises(receive_raises(Self, exc), exc))
    /\ UNCHANGED <<up, down, util>>

Next ==
    \/ Call_connect
    \/ Call_reconnect_to_dc
    \/ Call_send_code_request
    \/ Call_make_auth
    \/ Call_invoke
    \/ Call_disconnect
    \/ Authenticated
    \/ AuthenticationFails
    \/ Configured
    \/ ConfigurationFails
    \/ CodeSent
    \/ CodeRedirected
    \/ CodeFails
    \/ SignedIn
    \/ SignInFails
    \/ Invoked
    \/ InvokeFails

Spec == Init /\ [][Next]_vars

----------------------------------------------------------------------------
\* upload_file (lines 256-299).

\* Files of up to MaxFileKB * 1024 + 1 bytes are uploaded.
MaxFileKB == 3

KB == 1024

Min(a, b) == IF a <= b THEN a ELSE b

\* part_size_kb as the fraction num/den; int(part_size_kb * 1024)
Kb(num, den) == [num |-> num, den |-> den]
\* int() drops the fraction, towards zero; den > 0
PartSize(part_size_kb) ==
    LET n == part_size_kb.num * KB
    IN  IF n >= 0 THEN n \div part_size_kb.den
        ELSE 0 - ((0 - n) \div part_size_kb.den)

\* Mutant: no validation of the part size.
PartSizeInvalid_never(part_size) == FALSE

\* lines 262 / 424: part_size % 1024 != 0
PartSizeInvalid(part_size) == part_size % KB # 0

\* The running checksum: hashlib's md5 stands here as a 15-bit hash fed byte
\* by byte, h <- (33 * h + byte) mod 32749: the digest depends on every byte
\* and on their order, and feeding parts one after the other is feeding
\* their concatenation.  md5_feed(data, lo, hi) is what feeding
\* data[lo..hi] adds to a hash, computed by halves
\* (feeding k bytes to h gives h * 33^k + md5_feed of those bytes).
md5 == [py |-> "md5", h |-> 5381]
RECURSIVE md5_pow(_)
md5_pow(k) ==
    IF k = 0 THEN 1
    ELSE IF k % 2 = 1 THEN (33 * md5_pow(k - 1)) % 32749
    ELSE (md5_pow(k \div 2) * md5_pow(k \div 2)) % 32749
RECURSIVE md5_feed(_, _, _)
md5_feed(data, lo, hi) ==
    IF lo > hi THEN 0
    ELSE IF lo = hi THEN data[lo] % 32749
    ELSE LET mid == (lo + hi) \div 2
         IN  (md5_feed(data, lo, mid) * md5_pow(hi - mid) + md5_feed(data, mid + 1, hi)) % 32749
md5_update(hash_md5, data) ==
    [hash_md5 EXCEPT !.h = (@ * md5_pow(Len(data)) + md5_feed(data, 1, Len(data))) % 32749]
HexDigits == <<"0","1","2","3","4","5","6","7","8","9","a","b","c","d","e","f">>
md5_hexdigest(hash_md5) ==
    [i \in 1..4 |-> HexDigits[((hash_md5.h \div (16 ^ (4 - i))) % 16) + 1]]

\* file.read(part_size) at position pos: up to part_size bytes, the rest of
\* the file for -1; a size below -1 raises ValueError ('read length must
\* be non-negative or -1')
file_read_raises(part_size) == part_size < 0 - 1
file_read(data, pos, part_size) ==
    IF part_size = 0 - 1 THEN SubSeq(data, pos + 1, Len(data))
    ELSE SubSeq(data, pos + 1, Min(pos + part_size, Len(data)))

\* path.basename of a path given by its components
basename(file_path) == file_path[Len(file_path)]

SaveFilePartRequest(file_id, file_part, bytes) ==
    Request("SaveFilePartRequest", [file_id |-> file_id, file_part |-> file_part, bytes |-> bytes])
InputFile(id, parts, name, md5_checksum) ==
    [py |-> "InputFile", id |-> id, parts |-> parts, name |-> name,
     md5_checksum |-> md5_checksum]

Both(s, u) == [c |-> s, u |-> u]

upload_file_raises(s, u, exc) ==
    Both(Raises(Log(Pop(s), Event("raise upload_file", exc, None)), "upload_file", exc),
         [u EXCEPT !.pc = "done", !.open = FALSE])

\* lines 291-299: the loop is over
upload_file_returns(s, u) ==
    LET file_name == IF u.file_name = None \/ u.file_name = PyStr("")
                     THEN PyStr(basename(u.file_path))
                     ELSE u.file_name
        handle == InputFile(u.file_id, u.part_index, file_name, md5_hexdigest(u.hash_md5))
    IN  Both(Returns(Log(Pop(s), Event("return upload_file", handle, None)),
                     "upload_file", "InputFile"),
             [u EXCEPT !.pc = "done", !.open = FALSE, !.handle = handle])

\* lines 272-284: one turn of the loop, up to the answer to the part
upload_file_loop(s, u) ==
    LET part == file_read(u.data, u.pos, u.part_size)
        u1 == [u EXCEPT !.pos = @ + Len(part), !.part = part]
        request == SaveFilePartRequest(u.file_id, u.part_index, part)
        err == invoke_error(s, request)
    IN  IF file_read_raises(u.part_size)
        THEN upload_file_raises(s, u, PyError("ValueError"))
        ELSE IF part = <<>> THEN upload_file_returns(s, u1)
        ELSE IF err # None THEN upload_file_raises(s, u1, err)
        ELSE Both(sender_send(s, request, "save_file_part"), u1)

\* Mutant: only full parts are folded into the checksum.
upload_file_acknowledged_full_parts(s, u) ==
    upload_file_loop(s, [u EXCEPT !.part_index = @ + 1,
                                  !.hash_md5 = IF Len(u.part) = u.part_size
                                               THEN md5_update(@, u.part) ELSE @])

\* lines 285-287: the part was acknowledged
upload_file_acknowledged(s, u) ==
    upload_file_loop(s, [u EXCEPT !.part_index = @ + 1,
                                  !.hash_md5 = md5_update(@, u.part)])

\* 'Could not upload file part #{}'.format(part_index): the text and the
\* number that fills it
part_error_message(part_index) == <<"Could not upload file part #", ToString(part_index)>>

\* Mutant: a part that was not acknowledged is passed over.
upload_file_refused_skips(s, u) ==
    upload_file_loop(s, [u EXCEPT !.part_index = @ + 1])

\* lines 288-289: the acknowledgment is falsy
upload_file_refused(s, u) ==
    upload_file_raises(s, u, [PyError("ValueError") EXCEPT
                                 !.message = part_error_message(u.part_index)])

\* lines 256-284: the call, up to the answer to the first part.
\* file: the path and the content of the file; now_us: the clock, in microseconds.
upload_file(s, file, part_size_kb, file_name, now_us) ==
    LET s1 == Log(Push(s, "upload_file", file.path),
                  Event("call upload_file", file, part_size_kb))
        part_size == PartSize(part_size_kb)
        u == [pc |-> "running", file_path |-> file.path, data |-> file.data,
              file_name |-> file_name, part_size |-> part_size, file_id |-> now_us,
              part_index |-> 0, hash_md5 |-> md5, pos |-> 0, part |-> <<>>,
              open |-> TRUE, handle |-> None]
    IN  IF PartSizeInvalid(part_size)
        THEN upload_file_raises(s1, [u EXCEPT !.open = FALSE], PyError("ValueError"))
        ELSE upload_file_loop(s1, u)

\* The files: n bytes that differ along the file.
FileBytes(n, seed) == [i \in 1..n |-> (i * (seed + 3) + seed) % 256]
FileSizes == {n \in 0..(MaxFileKB * KB + 1) : n % KB \in {0, 1, KB - 1}}
Files == { [path |-> <<"photos", "cat.jpg">>, data |-> FileBytes(n, seed)] :
              n \in FileSizes, seed \in {0, 1} }
PartSizesKB == {Kb(1, 1), Kb(2, 1), Kb(0, 1), Kb(1, 2), Kb(3, 2),
                Kb(0 - 1, 1), Kb(0 - 1, 3), Kb(0 - 1, 10000)}
FileNames == {None, PyStr(""), PyStr("kitten.jpg")}
\* datetime.now().timestamp() * 10 ** 6: a reading of the clock, in microseconds
ClockUs == 1480000 * 1000 + 17

\* A client on which connect() has succeeded: the state the model's connect
\* reaches from a new session.
ConnectedClient(s0) ==
    LET s1 == connect(StartCall(s0), FALSE)
        s2 == connect_authenticated(
                  Log(s1, Event("do_authentication returns",
                                AuthKey(s1.transport, s1.nauth), TimeOffset(s1.nauth))),
                  AuthKey(s1.transport, s1.nauth), TimeOffset(s1.nauth))
    IN  connect_configured(received(s2, PyList(<<DC1, DC2, DC2alt>>)),
                           PyList(<<DC1, DC2, DC2alt>>))

NewClient ==
    LET t == TcpTransport(1, NewSession.server_address, NewSession.port)
        e == [session |-> NewSession, saved |-> NewSession, transport |-> t,
              sender |-> None, dc_options |-> None, phone_code_hashes |-> <<>>,
              nauth |-> 0]
    IN  [session |-> NewSession, saved |-> NewSession, transport |-> t,
         closed |-> {}, sender |-> None, dc_options |-> None,
         phone_code_hashes |-> <<>>, stack |-> <<>>, pc |-> "idle",
         inflight |-> None, result |-> None, trace |-> <<>>, entry |-> e,
         nauth |-> 0, ntransports |-> 1, ncalls |-> 0, nredirects |-> 0]

\* The variables hold the client s.
Is(s) ==
    /\ session = s.session
    /\ saved = s.saved
    /\ transport = s.transport
    /\ closed = s.closed
    /\ sender = s.sender
    /\ dc_options = s.dc_options
    /\ phone_code_hashes = s.phone_code_hashes
    /\ stack = s.stack
    /\ pc = s.pc
    /\ inflight = s.inflight
    /\ result = s.result
    /\ trace = s.trace
    /\ entry = s.entry
    /\ nauth = s.nauth
    /\ ntransports = s.ntransports
    /\ ncalls = s.ncalls
    /\ nredirects = s.nredirects

\* A transfer starts on a client that was just built or that is connected.
InitTransfer ==
    /\ \E s \in {NewClient, ConnectedClient(NewClient)} : Is(s)
    /\ up = UpIdle
    /\ down = DownIdle
    /\ util = UtilIdle

\* A run makes one transfer: an upload or a download.
Call_upload_file ==
    /\ pc = "idle"
    /\ up.pc = "idle"
    /\ down.pc = "idle"
    /\ \E file \in Files, part_size_kb \in PartSizesKB, file_name \in FileNames :
          LET r == upload_file(StartCall(Self), file, part_size_kb, file_name, ClockUs)
          IN  Become(r.c) /\ up' = r.u
    /\ UNCHANGED <<down, util>>

PartSaved ==
    /\ pc = "save_file_part"
    /\ LET r == upload_file_acknowledged(received(Self, "True"), up)
       IN  Become(r.c) /\ up' = r.u
    /\ UNCHANGED <<down, util>>

PartRefused ==
    /\ pc = "save_file_part"
    /\ LET r == upload_file_refused(received(Self, "False"), up)
       IN  Become(r.c) /\ up' = r.u
    /\ UNCHANGED <<down, util>>

PartFails ==
    /\ pc = "save_file_part"
    /\ \E exc \in {RPCError(MsgInternal), InvalidDCError(2)} :
          LET r == upload_file_raises(receive_raises(Self, exc), up, exc)
          IN  Become(r.c) /\ up' = r.u
    /\ UNCHANGED <<down, util>>

NextUpload ==
    \/ Call_upload_file
    \/ PartSaved
    \/ PartRefused
    \/ PartFails

SpecUpload == InitTransfer /\ [][NextUpload]_vars

----------------------------------------------------------------------------
\* download_file_loc (lines 420-444).

\* Non-empty chunks a server sends before the empty one.
MaxChunks == 3

GetFileRequest(input_location, offset, limit) ==
    Request("GetFileRequest", [location |-> input_location, offset |-> offset, limit |-> limit])
\* upload.File: the result of GetFileRequest
UploadFile(type, bytes) == [py |-> "upload.File", type |-> type, bytes |-> bytes]

download_file_loc_raises(s, d, exc) ==
    Both(Raises(Log(Pop(s), Event("raise download_file_loc", exc, None)),
                "download_file_loc", exc),
         [d EXCEPT !.pc = "done", !.open = FALSE])

download_file_loc_returns(s, d, type) ==
    Both(Returns(Log(Pop(s), Event("return download_file_loc", type, None)),
                 "download_file_loc", type),
         [d EXCEPT !.pc = "done", !.open = FALSE])

\* Mutant: the offset is the number of bytes written so far.
download_file_loc_loop_by_bytes(s, d) ==
    LET offset == Len(d.file.data)
        request == GetFileRequest(d.input_location, offset, d.part_size)
        err == invoke_error(s, request)
    IN  IF err # None THEN download_file_loc_raises(s, d, err)
        ELSE Both(sender_send(s, request, "get_file"), d)

\* lines 435-437: the next request, up to its answer (offset_index grows when
\* invoke has returned)
download_file_loc_loop(s, d) ==
    LET offset == d.offset_index * d.part_size
        request == GetFileRequest(d.input_location, offset, d.part_size)
        err == invoke_error(s, request)
    IN  IF err # None THEN download_file_loc_raises(s, d, err)
        ELSE Both(sender_send(s, request, "get_file"), d)

\* Mutant: the file is opened for appending, what it held stays.
download_open_append(file) == [file EXCEPT !.exists = TRUE]

\* line 432: open(file_path, 'wb') creates the file or empties it
download_open(file) == [exists |-> TRUE, data |-> <<>>]

\* Mutant: an answer shorter than the part size is taken for the last one.
download_file_loc_received_short(s, d, file_result) ==
    LET d1 == [d EXCEPT !.offset_index = @ + 1]
    IN  IF file_result.bytes = <<>>
        THEN download_file_loc_returns(s, d1, file_result.type)
        ELSE IF Len(file_result.bytes) < d.part_size
        THEN download_file_loc_returns(
                 Log(s, Event("write", file_result.bytes, None)),
                 [d1 EXCEPT !.file.data = @ \o file_result.bytes], file_result.type)
        ELSE download_file_loc_loop(
                 Log(s, Event("write", file_result.bytes, None)),
                 [d1 EXCEPT !.file.data = @ \o file_result.bytes])

\* lines 437-444: an answer arrived
download_file_loc_received(s, d, file_result) ==
    LET d1 == [d EXCEPT !.offset_index = @ + 1]
    IN  IF file_result.bytes = <<>>
        THEN download_file_loc_returns(s, d1, file_result.type)
        ELSE download_file_loc_loop(
                 Log(s, Event("write", file_result.bytes, None)),
                 [d1 EXCEPT !.file.data = @ \o file_result.bytes])

\* lines 420-436: the call, up to the answer to the first request.
\* dest: the file at file_path and its parent directory, as they are.
download_file_loc(s, input_location, dest, part_size_kb) ==
    LET s1 == Log(Push(s, "download_file_loc", input_location),
                  Event("call download_file_loc", dest, part_size_kb))
        part_size == PartSize(part_size_kb)
        d == [pc |-> "running", input_location |-> input_location,
              parent_dir |-> dest.parent_dir, file |-> dest.file,
              part_size |-> part_size, offset_index |-> 0, open |-> FALSE]
    IN  IF PartSizeInvalid(part_size)
        THEN download_file_loc_raises(s1, d, PyError("ValueError"))
        ELSE download_file_loc_loop(
                 Log(Log(s1, Event("ensure_parent_dir_exists", None, None)),
                     Event("open", "wb", None)),
                 [d EXCEPT !.parent_dir = TRUE, !.file = download_open(d.file),
                           !.open = TRUE])

\* What is at the destination before the call: nothing, or an older file.
Destinations ==
    { [parent_dir |-> FALSE, file |-> [exists |-> FALSE, data |-> <<>>]],
      [parent_dir |-> TRUE, file |-> [exists |-> FALSE, data |-> <<>>]],
      [parent_dir |-> TRUE, file |-> [exists |-> TRUE, data |-> <<7, 7, 7>>]] }
Chunks == { <<10>>, <<20, 21>> }
FileTypes == {"storage.fileJpeg", "storage.filePartial"}
InputLocations == {"InputFileLocation", "InputDocumentFileLocation"}

\* The non-empty chunks received so far by the running download.
ChunksReceived == Cardinality({i \in 1..Len(trace) : trace[i].e = "write"})

Call_download_file_loc ==
    /\ pc = "idle"
    /\ down.pc = "idle"
    /\ up.pc = "idle"
    /\ \E input_location \in InputLocations, dest \in Destinations,
          part_size_kb \in PartSizesKB :
          LET r == download_file_loc(StartCall(Self), input_location, dest, part_size_kb)
          IN  Become(r.c) /\ down' = r.u
    /\ UNCHANGED <<up, util>>

ChunkReceived ==
    /\ pc = "get_file"
    /\ ChunksReceived < MaxChunks
    /\ \E bytes \in Chunks, type \in FileTypes :
          LET file_result == UploadFile(type, bytes)
              r == download_file_loc_received(received(Self, file_result), down, file_result)
          IN  Become(r.c) /\ down' = r.u
    /\ UNCHANGED <<up, util>>

EndReceived ==
    /\ pc = "get_file"
    /\ \E type \in FileTypes :
          LET file_result == UploadFile(type, <<>>)
              r == download_file_loc_received(received(Self, file_result), down, file_result)
          IN  Become(r.c) /\ down' = r.u
    /\ UNCHANGED <<up, util>>

ChunkFails ==
    /\ pc = "get_file"
    /\ \E exc \in {RPCError(MsgInternal), InvalidDCError(2)} :
          LET r == download_file_loc_raises(receive_raises(Self, exc), down, exc)
          IN  Become(r.c) /\ down' = r.u
    /\ UNCHANGED <<up, util>>

NextDownload ==
    \/ Call_download_file_loc
    \/ ChunkReceived
    \/ EndReceived
    \/ ChunkFails

SpecDownload == InitTransfer /\ [][NextDownload]_vars

\* Either transfer.
NextTransfer ==
    \/ NextUpload
    \/ NextDownload

SpecTransfer == InitTransfer /\ [][NextTransfer]_vars

----------------------------------------------------------------------------
\* Properties of the connection, authorization and invocation code.

Idx == 1..Len(trace)
Idle == pc = "idle" /\ result # None

\* The request of the running send_code_request call and what the trace
\* holds about it.
C1_Request == SendCodeRequest(trace[1].a)
C1_Redirects ==
    {i \in Idx : /\ trace[i].e = "receive raises"
                 /\ trace[i].a = C1_Request
                 /\ trace[i].b.cls = "InvalidDCError"}
C1_Sends == {i \in Idx : trace[i].e = "send" /\ trace[i].a = C1_Request}
C1_Writes == {i \in Idx : trace[i].e = "phone_code_hashes"}

\* C1: in a send_code_request call, every redirect answer to the code request
\* is followed at once by reconnect_to_dc with the id the redirect names;
\* when reconnect_to_dc returns, the same request is sent again; the
\* phone -> phone_code_hash entry is written only after a successful answer,
\* right before the call returns (until then the map is as the call found
\* it); and a call that returns has sent the request once more than it was
\* redirected.
C1_SendCodeRetries ==
    (trace # <<>> /\ trace[1].e = "call send_code_request") =>
        /\ \A i \in C1_Redirects :
              /\ i < Len(trace)
              /\ trace[i + 1].e = "call reconnect_to_dc"
              /\ trace[i + 1].a = trace[i].b.new_dc
        /\ \A j \in Idx :
              trace[j].e = "return reconnect_to_dc" =>
                  /\ j < Len(trace)
                  /\ trace[j + 1].e = "send"
                  /\ trace[j + 1].a = C1_Request
        /\ \A k \in C1_Writes :
              /\ trace[k - 1].e = "receive"
              /\ trace[k - 1].a = C1_Request
              /\ trace[k].a = trace[1].a
              /\ trace[k].b = trace[k - 1].b
              /\ k + 1 = Len(trace)
              /\ trace[k + 1].e = "return send_code_request"
              /\ trace[1].a \in DOMAIN phone_code_hashes
              /\ phone_code_hashes[trace[1].a] = trace[k].b
              /\ \A p \in Phones \ {trace[1].a} :
                    /\ p \in DOMAIN phone_code_hashes <=> p \in DOMAIN entry.phone_code_hashes
                    /\ p \in DOMAIN phone_code_hashes =>
                          phone_code_hashes[p] = entry.phone_code_hashes[p]
        /\ C1_Writes = {} => phone_code_hashes = entry.phone_code_hashes
        /\ (Idle /\ result.kind = "return") =>
              /\ C1_Writes # {}
              /\ Cardinality(C1_Sends) = Cardinality(C1_Redirects) + 1
              /\ \A i \in C1_Writes, r \in C1_Redirects : r < i

\* C1 witness: a send_code_request that returned after two redirects.
C1_Witness ==
    /\ Idle
    /\ result.fn = "send_code_request"
    /\ result.kind = "return"
    /\ Cardinality(C1_Redirects) = 2
    /\ Cardinality(C1_Sends) = 3
    /\ trace[1].a \in DOMAIN phone_code_hashes

\* A finished make_auth call for a phone number whose token was stored.
C4_Done ==
    /\ Idle
    /\ result.fn = "make_auth"
    /\ trace[1].a \in DOMAIN entry.phone_code_hashes
C4_Saves == {i \in Idx : trace[i].e = "save"}
C4_Listens == {i \in Idx : trace[i].e = "set_listen_for_updates"}
C4_WrongCode(ans) ==
    /\ ans.e = "receive raises"
    /\ ans.b.cls = "RPCError"
    /\ ans.b.message \in {MsgPhoneCodeInvalid, MsgPhoneCodeExpired}
C4_OtherError(ans) ==
    /\ ans.e = "receive raises"
    /\ ans.b.cls = "RPCError"
    /\ ans.b.message \in {MsgPhoneCode, MsgPhoneNumberInvalid}

\* C4: make_auth with a stored token sends the sign-in request with that
\* token.  Answered by an RPC error whose message starts with PHONE_CODE_, it
\* returns False, and the session, the persisted session and the sender are
\* as the call found them (nothing saved, listening not enabled).  Answered
\* by a user, it stores the user, saves, then enables update listening, and
\* returns True.  Answered by another RPC error, it raises that error and the
\* session is as the call found it.
C4_MakeAuthOutcomes ==
    C4_Done =>
        /\ Len(trace) >= 4
        /\ trace[2].e = "send"
        /\ trace[2].a = SignInRequest(trace[1].a, entry.phone_code_hashes[trace[1].a],
                                      trace[1].b)
        /\ C4_WrongCode(trace[3]) =>
              /\ result.kind = "return"
              /\ result.value = "False"
              /\ session = entry.session
              /\ saved = entry.saved
              /\ sender = entry.sender
              /\ C4_Saves = {}
              /\ C4_Listens = {}
        /\ trace[3].e = "receive" =>
              /\ result.kind = "return"
              /\ result.value = "True"
              /\ session = [entry.session EXCEPT !.user = trace[3].b]
              /\ saved = session
              /\ sender = [entry.sender EXCEPT !.listen_for_updates = TRUE]
              /\ trace[4].e = "save"
              /\ trace[4].a.user = trace[3].b
              /\ trace[5].e = "set_listen_for_updates"
              /\ trace[6].e = "return make_auth"
        /\ C4_OtherError(trace[3]) =>
              /\ result.kind = "raise"
              /\ result.exc = trace[3].b
              /\ session = entry.session
              /\ saved = entry.saved
              /\ sender = entry.sender

\* C4 witness: a wrong code on a session without a user: False, user unset.
C4_Witness ==
    /\ C4_Done
    /\ C4_WrongCode(trace[3])
    /\ result.value = "False"
    /\ session.user = None

\* C5: every connect call asks the authenticator if and only if the session
\* has no key or reconnect is set.  When the authenticator answers, the
\* session with the new key and offset is saved, then the sender is built,
\* then the initialization request is sent under the new key.  Without the
\* authenticator the sender is built at once and the request leaves under
\* the key the session had.
C5_ConnectAuthenticates ==
    \A i \in Idx :
        trace[i].e = "call connect" =>
            LET needs == trace[i].b.auth_key = None \/ trace[i].a
            IN  /\ i < Len(trace)
                /\ needs <=> trace[i + 1].e = "do_authentication"
                /\ (needs /\ i + 2 <= Len(trace)
                          /\ trace[i + 2].e = "do_authentication returns") =>
                      /\ i + 5 <= Len(trace)
                      /\ trace[i + 2].a # trace[i].b.auth_key
                      /\ trace[i + 3].e = "save"
                      /\ trace[i + 3].a.auth_key = trace[i + 2].a
                      /\ trace[i + 3].a.time_offset = trace[i + 2].b
                      /\ trace[i + 4].e = "MtProtoSender"
                      /\ trace[i + 5].e = "send"
                      /\ trace[i + 5].a = InitRequest
                      /\ trace[i + 5].b.auth_key = trace[i + 2].a
                /\ ~needs =>
                      /\ i + 2 <= Len(trace)
                      /\ trace[i + 1].e = "MtProtoSender"
                      /\ trace[i + 2].e = "send"
                      /\ trace[i + 2].b.auth_key = trace[i].b.auth_key
                      /\ (Idle /\ i = 1) =>
                            /\ session.auth_key = entry.session.auth_key
                            /\ session.time_offset = entry.session.time_offset
                            /\ saved = entry.saved

\* C5 witness: connect(reconnect=True) on a session that had a key has
\* negotiated and saved another one.
C5_Witness ==
    /\ Idle
    /\ result.fn = "connect"
    /\ trace[1].a = TRUE
    /\ entry.session.auth_key # None
    /\ Len(trace) >= 6
    /\ trace[3].e = "do_authentication returns"
    /\ session.auth_key = trace[3].a
    /\ saved.auth_key = trace[3].a

\* The first option of a list with a given id, by its position.
C6_First(items, dc_id) ==
    LET hits == {i \in 1..Len(items) : items[i].id = dc_id}
        first == CHOOSE i \in hits : \A j \in hits : i <= j
    IN  items[first]
\* The transport the client holds when event i happens.
C6_TransportAt(i) ==
    LET opened == {j \in 1..(i - 1) : trace[j].e = "TcpTransport"}
    IN  IF opened = {} THEN entry.transport
        ELSE trace[CHOOSE j \in opened : \A k \in opened : k <= j].a

\* C6: reconnect_to_dc with an id that the captured options hold takes the
\* first option with that id and, in this order, closes the transport it
\* holds, opens a new one to the option's address and port, saves the
\* session with that address and port, and calls connect(reconnect=True);
\* when it returns to the application, the session, the persisted session
\* and the transport carry the option's address and port.
C6_ReconnectSteps ==
    \A i \in Idx :
        (/\ trace[i].e = "call reconnect_to_dc"
         /\ trace[i].b # None
         /\ \E k \in 1..Len(trace[i].b.items) : trace[i].b.items[k].id = trace[i].a) =>
            LET dc == C6_First(trace[i].b.items, trace[i].a)
            IN  /\ i + 4 <= Len(trace)
                /\ trace[i + 1].e = "close"
                /\ trace[i + 1].a = C6_TransportAt(i).id
                /\ trace[i + 2].e = "TcpTransport"
                /\ trace[i + 2].a.address = dc.ip_address
                /\ trace[i + 2].a.port = dc.port
                /\ trace[i + 2].a.id # trace[i + 1].a
                /\ trace[i + 3].e = "save"
                /\ trace[i + 3].a.server_address = dc.ip_address
                /\ trace[i + 3].a.port = dc.port
                /\ trace[i + 4].e = "call connect"
                /\ trace[i + 4].a = TRUE
                /\ (Idle /\ i = 1 /\ result.kind = "return") =>
                      /\ session.server_address = dc.ip_address
                      /\ session.port = dc.port
                      /\ saved.server_address = dc.ip_address
                      /\ saved.port = dc.port
                      /\ transport.address = dc.ip_address
                      /\ transport.port = dc.port
                      /\ trace[i + 1].a \in closed

\* C6 witness: reconnect_to_dc(2) returned, on options with two entries of id 2.
C6_Witness ==
    /\ Idle
    /\ result.fn = "reconnect_to_dc"
    /\ result.kind = "return"
    /\ trace[1].a = 2
    /\ entry.dc_options = PyList(<<DC1, DC2, DC2alt>>)
    /\ session.server_address = DC2.ip_address
    /\ session.port = DC2.port

\* C7: every request handed to the sender leaves while the session holds an
\* authentication key, and a sender exists only once a key does.
C7_SendNeedsKey ==
    /\ \A i \in Idx : trace[i].e = "send" => trace[i].b.auth_key # None
    /\ inflight # None => session.auth_key # None
    /\ sender # None => session.auth_key # None

\* C7 witness: a request in flight on a session that was created without a
\* key and got one from connect.
C7_Witness ==
    /\ pc = "sign_in"
    /\ inflight # None
    /\ session.auth_key # None
    /\ session.auth_key.n = 1

\* C8: an RPC error of the authenticator or of the initialization request
\* makes connect return False, and connect lets no RPC error out; connect
\* returns True only right after it stored the options of the configuration
\* answer; a connect that returned False left dc_options as it found them.
C8_ConnectNeverRaisesRpc ==
    /\ \A i \in Idx :
          (\/ trace[i].e = "do_authentication raises" /\ trace[i].a.cls = "RPCError"
           \/ /\ trace[i].e = "receive raises"
              /\ trace[i].a = InitRequest
              /\ trace[i].b.cls = "RPCError") =>
              /\ i < Len(trace)
              /\ trace[i + 1].e = "return connect"
              /\ trace[i + 1].a = "False"
    /\ \A i \in Idx : trace[i].e = "raise connect" => trace[i].a.cls # "RPCError"
    /\ \A i \in Idx :
          (trace[i].e = "return connect" /\ trace[i].a = "True") =>
              /\ i > 2
              /\ trace[i - 2].e = "receive"
              /\ trace[i - 2].a = InitRequest
              /\ trace[i - 1].e = "dc_options"
              /\ trace[i - 1].a = trace[i - 2].b
    /\ (Idle /\ result.fn = "connect") =>
          /\ result.kind = "raise" => result.exc.cls # "RPCError"
          /\ (result.kind = "return" /\ result.value = "False") =>
                dc_options = entry.dc_options
          /\ (result.kind = "return" /\ result.value = "True") =>
                dc_options = trace[Len(trace) - 2].b

\* C8 witness: connect returned False on an RPC error of the initialization
\* request, with options captured before that are still there.
C8_Witness ==
    /\ Idle
    /\ result.fn = "connect"
    /\ result.value = "False"
    /\ Len(trace) >= 3
    /\ trace[Len(trace) - 1].e = "receive raises"
    /\ entry.dc_options = PyList(<<DC1, DC2, DC2alt>>)
    /\ dc_options = entry.dc_options

\* C9 (as claimed): whenever a request is answered with a redirect, the
\* client reconnects to the data center it names, and no call ends by
\* raising the redirect into the application.
C9_RedirectsAreRetried ==
    /\ \A i \in Idx :
          (trace[i].e = "receive raises" /\ trace[i].b.cls = "InvalidDCError") =>
              /\ i < Len(trace)
              /\ trace[i + 1].e = "call reconnect_to_dc"
              /\ trace[i + 1].a = trace[i].b.new_dc
    /\ (Idle /\ result.kind = "raise") => result.exc.cls # "InvalidDCError"

\* C10: the persisted session equals the session in memory whenever the
\* client waits for an answer or has returned to the application: every
\* write of auth_key, time_offset, server_address, port or user is followed
\* by a save before the next request leaves and before the method ends.
C10_SessionPersisted ==
    /\ saved.auth_key = session.auth_key
    /\ saved.time_offset = session.time_offset
    /\ saved.server_address = session.server_address
    /\ saved.port = session.port
    /\ saved.user = session.user

\* C10 witness: a make_auth that returned True on a session whose key,
\* address and user all differ from what the constructor loaded.
C10_Witness ==
    /\ Idle
    /\ result.fn = "make_auth"
    /\ result.value = "True"
    /\ session.user # None
    /\ session.auth_key # None
    /\ session.server_address # DefaultAddress
    /\ saved = session

----------------------------------------------------------------------------
\* Properties of the transfers.

IsSend(ev) == ev.e = "send"
IsReceive(ev) == ev.e = "receive"
CeilDiv(n, p) == (n + p - 1) \div p

\* An upload_file call that returned, with a part size above 0.
C2_Done ==
    /\ Idle
    /\ result.fn = "upload_file"
    /\ result.kind = "return"
    /\ up.part_size > 0

\* C2: an upload_file call that returns (every part was acknowledged) for a
\* file of n bytes and a part size p > 0, a multiple of 1024, has sent
\* ceil(n / p) SaveFilePartRequest; all but the last carry p bytes, the last
\* carries n - (ceil(n / p) - 1) * p bytes, between 1 and p; the handle counts
\* ceil(n / p) parts and its checksum is that of the whole content.  For n = 0
\* nothing is sent, the handle has 0 parts and the checksum of no bytes.
C2_UploadParts ==
    C2_Done =>
        LET n == Len(up.data)
            p == up.part_size
            parts == SelectSeq(trace, IsSend)
        IN  /\ p % 1024 = 0
            /\ Len(parts) = CeilDiv(n, p)
            /\ \A k \in 1..Len(parts) :
                  /\ parts[k].a.cls = "SaveFilePartRequest"
                  /\ k < Len(parts) => Len(parts[k].a.arg.bytes) = p
                  /\ k = Len(parts) =>
                        /\ Len(parts[k].a.arg.bytes) = n - (k - 1) * p
                        /\ Len(parts[k].a.arg.bytes) >= 1
                        /\ Len(parts[k].a.arg.bytes) <= p
            /\ up.handle.parts = CeilDiv(n, p)
            /\ up.handle.md5_checksum = md5_hexdigest(md5_update(md5, up.data))
            /\ n = 0 =>
                  /\ parts = <<>>
                  /\ up.handle.parts = 0
                  /\ up.handle.md5_checksum = md5_hexdigest(md5)

\* C2 witness: 2049 bytes in parts of 1024: three parts, the last of one byte.
C2_Witness ==
    /\ C2_Done
    /\ Len(up.data) = 2049
    /\ up.part_size = 1024
    /\ up.handle.parts = 3
    /\ Len(up.part) = 0
    /\ Len(SelectSeq(trace, IsSend)) = 3

RECURSIVE C3_Concat(_)
C3_Concat(answers) ==
    IF answers = <<>> THEN <<>>
    ELSE Head(answers).b.bytes \o C3_Concat(Tail(answers))

\* C3: a download_file_loc call that returns has received some answers with
\* bytes and then one without; the file at the destination holds the bytes of
\* the answers, in the order received, and nothing else, and the value
\* returned is the type of the last, empty, answer.
C3_DownloadWrites ==
    (Idle /\ result.fn = "download_file_loc" /\ result.kind = "return") =>
        LET answers == SelectSeq(trace, IsReceive)
        IN  /\ answers # <<>>
            /\ answers[Len(answers)].b.bytes = <<>>
            /\ \A k \in 1..(Len(answers) - 1) : answers[k].b.bytes # <<>>
            /\ down.file.exists
            /\ down.file.data = C3_Concat(answers)
            /\ result.value = answers[Len(answers)].b.type
            /\ down.offset_index = Len(answers)

\* C3 witness: three chunks then the empty answer, over an older file, and
\* the type of the last answer differs from that of the first.
C3_Witness ==
    /\ Idle
    /\ result.fn = "download_file_loc"
    /\ result.kind = "return"
    /\ Len(SelectSeq(trace, IsReceive)) = 4
    /\ trace[1].a.file.exists
    /\ down.file.data = <<10, 20, 21, 10>>
    /\ result.value # SelectSeq(trace, IsReceive)[1].b.type

\* The events of the network and of the file system.
C11_Effects == {"send", "receive", "receive raises", "ensure_parent_dir_exists", "open", "write"}

\* A transfer that was called with a part size that 1024 does not divide.
C11_Invalid ==
    /\ Idle
    /\ \/ result.fn = "upload_file" /\ up.part_size % 1024 # 0
       \/ result.fn = "download_file_loc" /\ down.part_size % 1024 # 0

\* C11: upload_file and download_file_loc called with a part size that is
\* not a multiple of 1024 raise ValueError before any request is sent and,
\* for the download, before the parent directory or the file at the
\* destination is created or written.
C11_ValidationFirst ==
    C11_Invalid =>
        /\ result.kind = "raise"
        /\ result.exc.cls = "ValueError"
        /\ \A i \in Idx : trace[i].e \notin C11_Effects
        /\ result.fn = "upload_file" => ~up.open /\ up.part_index = 0
        /\ result.fn = "download_file_loc" =>
              /\ down.file = trace[1].a.file
              /\ down.parent_dir = trace[1].a.parent_dir
              /\ down.offset_index = 0

\* C11 witness: a connected client, a download of 512-byte parts over an
\* older file: ValueError, and the file is as it was.
C11_Witness ==
    /\ C11_Invalid
    /\ result.fn = "download_file_loc"
    /\ down.part_size = 512
    /\ sender # None
    /\ result.kind = "raise"
    /\ down.file.data = <<7, 7, 7>>

\* Event i is a call of reconnect_to_dc that no captured option answers.
C12_NoOptions(i) ==
    /\ trace[i].e = "call reconnect_to_dc"
    /\ \/ trace[i].b = None
       \/ trace[i].b.items = <<>>
C12_UnknownId(i) ==
    /\ trace[i].e = "call reconnect_to_dc"
    /\ trace[i].b # None
    /\ trace[i].b.items # <<>>
    /\ \A k \in 1..Len(trace[i].b.items) : trace[i].b.items[k].id # trace[i].a

\* C12: reconnect_to_dc(id) without captured options, or with an id no
\* captured option has, raises at once (ConnectionError, resp. StopIteration)
\* to its caller: nothing is closed, opened or saved in between, and when
\* the caller is the application the transport, the session, the persisted
\* session and the sender are those the call found.
C12_ReconnectUsageError ==
    \A i \in Idx :
        (C12_NoOptions(i) \/ C12_UnknownId(i)) =>
            /\ i < Len(trace)
            /\ trace[i + 1].e = "raise reconnect_to_dc"
            /\ C12_NoOptions(i) => trace[i + 1].a.cls = "ConnectionError"
            /\ C12_UnknownId(i) => trace[i + 1].a.cls = "StopIteration"
            /\ Idle
            /\ result.kind = "raise"
            /\ result.exc = trace[i + 1].a
            /\ i = 1 =>
                  /\ result.fn = "reconnect_to_dc"
                  /\ Len(trace) = 2
                  /\ transport = entry.transport
                  /\ transport.id \notin closed
                  /\ session = entry.session
                  /\ saved = entry.saved
                  /\ sender = entry.sender
                  /\ dc_options = entry.dc_options

\* C12 witness: reconnect_to_dc(3) on a connected client whose options
\* hold the ids 1 and 2.
C12_Witness ==
    /\ Idle
    /\ result.fn = "reconnect_to_dc"
    /\ C12_UnknownId(1)
    /\ trace[1].a = 3
    /\ result.exc.cls = "StopIteration"
    /\ sender # None
    /\ session.auth_key # None

\* C13: make_auth for a phone number that has no token in
\* phone_code_hashes (no send_code_request of this client has succeeded for
\* it) raises ValueError before any request is sent; the session, the
\* persisted session, the sender and the map are as the call found them.
C13_MakeAuthNeedsCode ==
    (/\ Idle
     /\ result.fn = "make_auth"
     /\ trace[1].a \notin DOMAIN entry.phone_code_hashes) =>
        /\ result.kind = "raise"
        /\ result.exc.cls = "ValueError"
        /\ Len(trace) = 2
        /\ trace[2].e = "raise make_auth"
        /\ session = entry.session
        /\ saved = entry.saved
        /\ sender = entry.sender
        /\ transport = entry.transport
        /\ phone_code_hashes = entry.phone_code_hashes

\* C13 witness: a connected client that holds a token for another phone
\* number; make_auth for a number without one raised.
C13_Witness ==
    /\ Idle
    /\ result.fn = "make_auth"
    /\ trace[1].a \notin DOMAIN entry.phone_code_hashes
    /\ DOMAIN phone_code_hashes # {}
    /\ sender # None
    /\ result.kind = "raise"

----------------------------------------------------------------------------
\* find_display_name and find_input_peer (lines 452-492): static methods.

\* Length of the users and chats lists of a call.
MaxTable == 2

PeerUser(user_id) == [py |-> "PeerUser", user_id |-> user_id]
PeerChat(chat_id) == [py |-> "PeerChat", chat_id |-> chat_id]
PeerChannel(channel_id) == [py |-> "PeerChannel", channel_id |-> channel_id]
InputPeerUser(user_id, access_hash) ==
    [py |-> "InputPeerUser", user_id |-> user_id, access_hash |-> access_hash]
InputPeerChat(chat_id) == [py |-> "InputPeerChat", chat_id |-> chat_id]
InputPeerChannel(channel_id, access_hash) ==
    [py |-> "InputPeerChannel", channel_id |-> channel_id, access_hash |-> access_hash]

\* The entries of the tables, by the fields the methods read.
TlUser(id, first_name, last_name, access_hash) ==
    [py |-> "User", id |-> id, first_name |-> first_name, last_name |-> last_name,
     access_hash |-> access_hash]
TlChat(cls, id, title, access_hash) ==
    [py |-> cls, id |-> id, title |-> title, access_hash |-> access_hash]

\* next(x for x in table if x.id == id): the position of the first entry
\* with the id, 0 for StopIteration
next_with_id(table, id) ==
    IF \A i \in 1..Len(table) : table[i].id # id THEN 0
    ELSE CHOOSE i \in 1..Len(table) :
             /\ table[i].id = id
             /\ \A j \in 1..(i - 1) : table[j].id # id

\* '{} {}'.format(first_name, last_name)
format_name(first_name, last_name) == first_name \o " " \o last_name

\* Mutant: a user that is not in users is looked for in chats.
find_display_name_any_table(peer, users, chats) ==
    IF peer.py = "PeerUser"
    THEN LET i == next_with_id(users, peer.user_id)
             j == next_with_id(chats, peer.user_id)
         IN  IF i = 0
             THEN (IF j = 0 THEN None ELSE PyStr(chats[j].title))
             ELSE IF users[i].last_name # None
             THEN PyStr(format_name(users[i].first_name, users[i].last_name.s))
             ELSE PyStr(users[i].first_name)
    ELSE IF peer.py = "PeerChat"
    THEN LET i == next_with_id(chats, peer.chat_id)
         IN  IF i = 0 THEN None ELSE PyStr(chats[i].title)
    ELSE IF peer.py = "PeerChannel"
    THEN LET i == next_with_id(chats, peer.channel_id)
         IN  IF i = 0 THEN None ELSE PyStr(chats[i].title)
    ELSE None

\* lines 452-472
find_display_name(peer, users, chats) ==
    IF peer.py = "PeerUser"
    THEN LET i == next_with_id(users, peer.user_id)
         IN  IF i = 0 THEN None
             ELSE IF users[i].last_name # None
             THEN PyStr(format_name(users[i].first_name, users[i].last_name.s))
             ELSE PyStr(users[i].first_name)
    ELSE IF peer.py = "PeerChat"
    THEN LET i == next_with_id(chats, peer.chat_id)
         IN  IF i = 0 THEN None ELSE PyStr(chats[i].title)
    ELSE IF peer.py = "PeerChannel"
    THEN LET i == next_with_id(chats, peer.channel_id)
         IN  IF i = 0 THEN None ELSE PyStr(chats[i].title)
    ELSE None

\* lines 474-492
find_input_peer(peer, users, chats) ==
    IF peer.py = "PeerUser"
    THEN LET i == next_with_id(users, peer.user_id)
         IN  IF i = 0 THEN None ELSE InputPeerUser(users[i].id, users[i].access_hash)
    ELSE IF peer.py = "PeerChat"
    THEN LET i == next_with_id(chats, peer.chat_id)
         IN  IF i = 0 THEN None ELSE InputPeerChat(chats[i].id)
    ELSE IF peer.py = "PeerChannel"
    THEN LET i == next_with_id(chats, peer.channel_id)
         IN  IF i = 0 THEN None ELSE InputPeerChannel(chats[i].id, chats[i].access_hash)
    ELSE None

\* The inputs.  Two users and two chats share the id 1.
PeerIds == {1, 2, 3}
Peers ==
    {PeerUser(id) : id \in PeerIds} \cup {PeerChat(id) : id \in PeerIds}
        \cup {PeerChannel(id) : id \in PeerIds} \cup {[py |-> "PeerOther"]}
TlUsers == { TlUser(1, "Ana", PyStr("Ruiz"), 11), TlUser(1, "Bo", None, 12),
             TlUser(2, "Eve", PyStr(""), 21) }
TlChats == { TlChat("Chat", 1, "Family", 0), TlChat("Channel", 1, "News", 32),
             TlChat("Channel", 3, "Music", 33) }
Tables(entries) == UNION { [1..n -> entries] : n \in 0..MaxTable }

\* What the utilities leave alone: they are static methods.
client_and_transfers ==
    <<session, saved, transport, closed, sender, dc_options, phone_code_hashes,
      stack, pc, inflight, result, trace, entry, nauth, ntransports, ncalls,
      nredirects, up, down>>

InitUtil ==
    /\ Is(NewClient)
    /\ up = UpIdle
    /\ down = DownIdle
    /\ util = UtilIdle

\* A run makes one call of a utility.
Call_find_display_name ==
    /\ util.pc = "idle"
    /\ \E peer \in Peers, users \in Tables(TlUsers), chats \in Tables(TlChats) :
          util' = [pc |-> "done", fn |-> "find_display_name", peer |-> peer,
                   users |-> users, chats |-> chats,
                   value |-> find_display_name(peer, users, chats)]
    /\ UNCHANGED client_and_transfers

Call_find_input_peer ==
    /\ util.pc = "idle"
    /\ \E peer \in Peers, users \in Tables(TlUsers), chats \in Tables(TlChats) :
          util' = [pc |-> "done", fn |-> "find_input_peer", peer |-> peer,
                   users |-> users, chats |-> chats,
                   value |-> find_input_peer(peer, users, chats)]
    /\ UNCHANGED client_and_transfers

NextPeers ==
    \/ Call_find_display_name
    \/ Call_find_input_peer

SpecPeers == InitUtil /\ [][NextPeers]_vars

\* The id a peer names, the table of its kind, and the positions of the
\* entries of a table with an id.
C14_Id(peer) ==
    CASE peer.py = "PeerUser" -> peer.user_id
      [] peer.py = "PeerChat" -> peer.chat_id
      [] peer.py = "PeerChannel" -> peer.channel_id
C14_Hits(table, id) == {i \in 1..Len(table) : table[i].id = id}
C14_Found(table, id) ==
    table[CHOOSE i \in C14_Hits(table, id) : \A j \in C14_Hits(table, id) : i <= j]
C14_Called(fn) ==
    /\ util.pc = "done"
    /\ util.fn = fn
    /\ util.peer.py \in {"PeerUser", "PeerChat", "PeerChannel"}

\* C14: for a user, a chat and a channel reference, find_display_name and
\* find_input_peer return None when the table of the reference's kind (users
\* for a user, chats for a chat and a channel) has no entry with its id,
\* whatever the other table holds; otherwise the result is built from the
\* first entry with the id: 'first last' or, without a last name, 'first',
\* resp. InputPeerUser(id, access_hash); the title resp. InputPeerChat(id);
\* the title resp. InputPeerChannel(id, access_hash).
C14_PeerResolution ==
    /\ C14_Called("find_display_name") =>
          LET id == C14_Id(util.peer)
              table == IF util.peer.py = "PeerUser" THEN util.users ELSE util.chats
          IN  IF C14_Hits(table, id) = {} THEN util.value = None
              ELSE LET x == C14_Found(table, id)
                   IN  IF util.peer.py = "PeerUser"
                       THEN IF x.last_name = None
                            THEN util.value = PyStr(x.first_name)
                            ELSE util.value = PyStr(x.first_name \o " " \o x.last_name.s)
                       ELSE util.value = PyStr(x.title)
    /\ C14_Called("find_input_peer") =>
          LET id == C14_Id(util.peer)
              table == IF util.peer.py = "PeerUser" THEN util.users ELSE util.chats
          IN  IF C14_Hits(table, id) = {} THEN util.value = None
              ELSE LET x == C14_Found(table, id)
                   IN  CASE util.peer.py = "PeerUser" ->
                              util.value = [py |-> "InputPeerUser", user_id |-> id,
                                            access_hash |-> x.access_hash]
                         [] util.peer.py = "PeerChat" ->
                              util.value = [py |-> "InputPeerChat", chat_id |-> id]
                         [] util.peer.py = "PeerChannel" ->
                              util.value = [py |-> "InputPeerChannel", channel_id |-> id,
                                            access_hash |-> x.access_hash]

\* C14 witness: a user reference whose id two users share and a chat has
\* too; the name is that of the first user.
C14_Witness ==
    /\ C14_Called("find_display_name")
    /\ util.peer = PeerUser(1)
    /\ Len(util.users) = 2
    /\ util.users[1].first_name = "Bo"
    /\ util.users[2].first_name = "Ana"
    /\ Len(util.chats) = 1
    /\ util.chats[1].id = 1
    /\ util.value = PyStr("Bo")

----------------------------------------------------------------------------
\* Properties of invoke.

\* An invoke call of the application that is over.
C15_Done ==
    /\ Idle
    /\ result.fn = "invoke"
C15_Handed == {i \in Idx : trace[i].e \in {"send", "receive", "receive raises"}}

\* C15: invoke of a value that is not a request raises ValueError and
\* nothing is handed to the sender: no send, no receive, no second attempt.
\* invoke of a request, on a client that has a sender, sends that request
\* once, receives for that same request once, and returns the result the
\* receive recorded on it (or raises what the receive raised).
C15_InvokeOnce ==
    /\ (C15_Done /\ ~trace[1].a.is_request) =>
          /\ result.kind = "raise"
          /\ result.exc.cls = "ValueError"
          /\ C15_Handed = {}
          /\ Len(trace) = 2
          /\ trace[2].e = "raise invoke"
    /\ (C15_Done /\ trace[1].a.is_request /\ entry.sender # None) =>
          /\ C15_Handed = {2, 3}
          /\ trace[2].e = "send"
          /\ trace[2].a = trace[1].a
          /\ trace[3].e \in {"receive", "receive raises"}
          /\ trace[3].a = trace[1].a
          /\ Len(trace) = 4
          /\ trace[3].e = "receive" =>
                /\ result.kind = "return"
                /\ result.value = trace[3].b
          /\ trace[3].e = "receive raises" =>
                /\ result.kind = "raise"
                /\ result.exc = trace[3].b

\* C15 witness: a connected client, invoke of a value that is not a request.
C15_Witness ==
    /\ C15_Done
    /\ trace[1].a = NotARequest
    /\ entry.sender # None
    /\ entry.session.auth_key # None
    /\ result.kind = "raise"

\* A request invoked on a connected client returned the second result.
C15_Returned ==
    /\ C15_Done
    /\ trace[1].a = GetDialogsRequest
    /\ result.kind = "return"
    /\ result.value = "messages.DialogsSlice"

----------------------------------------------------------------------------
\* download_contact (lines 394-418): a static method.

\* MessageMediaContact, by the fields read; last_name: a str or None
MessageMediaContact(first_name, last_name, phone_number) ==
    [py |-> "MessageMediaContact", first_name |-> first_name, last_name |-> last_name,
     phone_number |-> phone_number]

\* `last_name if last_name else ''` (line 413)
or_empty(last_name) == IF last_name = None \/ last_name.s = "" THEN "" ELSE last_name.s

\* The lines written before the formatted name: lines 411-413
vcard_head(first_name, last_name) ==
    "BEGIN:VCARD\n" \o "VERSION:4.0\n"
        \o "N:" \o first_name \o ";" \o or_empty(last_name) \o ";;;\n"

\* The lines written from the formatted name on: lines 414-416
vcard_tail(first_name, last_name, phone_number) ==
    "FN:" \o first_name \o " " \o last_name.s \o "\n"
        \o "TEL;TYPE=cell;VALUE=uri:tel:+" \o phone_number \o "\n"
        \o "END:VCARD\n"

\* lines 394-418.  dest: the file at the final path and its parent
\* directory, as they are.  ' '.join((first_name, last_name)) raises
\* TypeError when last_name is None; the with statement closes the file,
\* which then holds what was written before.
download_contact(message_media_contact, file_path, add_extension, dest) ==
    LET first_name == message_media_contact.first_name
        last_name == message_media_contact.last_name
        phone_number == message_media_contact.phone_number
        path == IF add_extension THEN file_path \o ".vcard" ELSE file_path
        head == vcard_head(first_name, last_name)
    IN  IF last_name = None
        THEN [kind |-> "raise", exc |-> PyError("TypeError"), value |-> None,
              path |-> path, parent_dir |-> TRUE,
              file |-> [exists |-> TRUE, data |-> head]]
        ELSE [kind |-> "return", exc |-> None, value |-> PyStr(path),
              path |-> path, parent_dir |-> TRUE,
              file |-> [exists |-> TRUE,
                        data |-> head \o vcard_tail(first_name, last_name, phone_number)]]

FirstNames == {"Ana", "Li"}
LastNames == {None, PyStr(""), PyStr("Ruiz")}
ContactPhones == {"15551234567", "34600000001"}
Contacts == { MessageMediaContact(f, l, ph) :
                 f \in FirstNames, l \in LastNames, ph \in ContactPhones }
ContactPaths == {"ana", "contacts/ana"}
ContactDestinations ==
    { [parent_dir |-> FALSE, file |-> [exists |-> FALSE, data |-> ""]],
      [parent_dir |-> TRUE, file |-> [exists |-> FALSE, data |-> ""]],
      [parent_dir |-> TRUE, file |-> [exists |-> TRUE, data |-> "BEGIN:VCARD\nold\n"]] }

Call_download_contact ==
    /\ util.pc = "idle"
    /\ \E contact \in Contacts, file_path \in ContactPaths, add_extension \in BOOLEAN,
          dest \in ContactDestinations :
          util' = [pc |-> "done", fn |-> "download_contact", contact |-> contact,
                   file_path |-> file_path, add_extension |-> add_extension,
                   dest |-> dest,
                   out |-> download_contact(contact, file_path, add_extension, dest)]
    /\ UNCHANGED client_and_transfers

NextContact == Call_download_contact

SpecContact == InitUtil /\ [][NextContact]_vars

C16_Called == util.pc = "done" /\ util.fn = "download_contact"
C16_Path == IF util.add_extension THEN util.file_path \o ".vcard" ELSE util.file_path
\* The record of a contact; an absent last name (None or empty) leaves the
\* last component of N empty.
C16_Record(c) ==
    LET absent == c.last_name = None \/ c.last_name = PyStr("")
    IN  "BEGIN:VCARD\n" \o "VERSION:4.0\n"
        \o "N:" \o c.first_name \o ";" \o (IF absent THEN "" ELSE c.last_name.s) \o ";;;\n"
        \o "FN:" \o c.first_name \o (IF c.last_name = None THEN "" ELSE " " \o c.last_name.s)
        \o "\n"
        \o "TEL;TYPE=cell;VALUE=uri:tel:+" \o c.phone_number \o "\n"
        \o "END:VCARD\n"

\* C16 (as claimed): download_contact completes for every contact, with a
\* last name or without, the file at the destination holds the record
\* BEGIN:VCARD, VERSION:4.0, N, FN, TEL, END:VCARD, and the value returned is
\* the destination path, with '.vcard' appended when asked.
C16_ContactRecord ==
    C16_Called =>
        /\ util.out.kind = "return"
        /\ util.out.value = PyStr(C16_Path)
        /\ util.out.file.exists
        /\ util.out.file.data = C16_Record(util.contact)

\* What holds of download_contact: the claim for every contact whose last
\* name is a str; TypeError, and a file cut after the N line, when it is None.
C16_ContactRecordWithLastName ==
    C16_Called =>
        IF util.contact.last_name # None
        THEN /\ util.out.kind = "return"
             /\ util.out.value = PyStr(C16_Path)
             /\ util.out.file.data = C16_Record(util.contact)
        ELSE /\ util.out.kind = "raise"
             /\ util.out.exc.cls = "TypeError"
             /\ util.out.file.data =
                    "BEGIN:VCARD\n" \o "VERSION:4.0\n"
                        \o "N:" \o util.contact.first_name \o ";;;;\n"

\* The example of the specification: Ana Ruiz, to "ana", with the extension.
C16_Example ==
    /\ C16_Called
    /\ util.contact = MessageMediaContact("Ana", PyStr("Ruiz"), "15551234567")
    /\ util.file_path = "ana"
    /\ util.add_extension
    /\ util.out.value = PyStr("ana.vcard")
    /\ util.out.file.data =
           "BEGIN:VCARD\nVERSION:4.0\nN:Ana;Ruiz;;;\nFN:Ana Ruiz\nTEL;TYPE=cell;VALUE=uri:tel:+15551234567\nEND:VCARD\n"

----------------------------------------------------------------------------
\* Properties of a transfer, step by step.

\* The positions of the trace where a falsy acknowledgment arrived.
C17_IsPart(ev) == ev.a.cls = "SaveFilePartRequest"
C17_Refusals ==
    {i \in Idx : trace[i].e = "receive" /\ C17_IsPart(trace[i]) /\ trace[i].b = "False"}
C17_SendsOf(k) ==
    {i \in Idx : trace[i].e = "send" /\ C17_IsPart(trace[i])
                    /\ trace[i].a.arg.file_part = k}

\* C17: when the acknowledgment of part k is falsy, upload_file raises at
\* once a ValueError whose message names k: part k was sent once, no part
\* above k was sent, the checksum holds the parts below k only, and no
\* handle is returned.
C17_RefusedPartIsFatal ==
    \A i \in C17_Refusals :
        LET k == trace[i].a.arg.file_part
        IN  /\ trace[i - 1].e = "send"
            /\ trace[i - 1].a = trace[i].a
            /\ Len(trace) = i + 1
            /\ trace[i + 1].e = "raise upload_file"
            /\ Idle
            /\ result.fn = "upload_file"
            /\ result.kind = "raise"
            /\ result.exc.cls = "ValueError"
            /\ result.exc.message = <<"Could not upload file part #", ToString(k)>>
            /\ Cardinality(C17_SendsOf(k)) = 1
            /\ \A j \in Idx : trace[j].e = "send" =>
                  C17_IsPart(trace[j]) /\ trace[j].a.arg.file_part <= k
            /\ up.part_index = k
            /\ up.hash_md5 = md5_update(md5, SubSeq(up.data, 1, k * up.part_size))
            /\ up.handle = None
            /\ ~up.open

\* C17 witness: the second part (index 1) of a file of three parts was not
\* acknowledged.
C17_Witness ==
    /\ C17_Refusals # {}
    /\ Idle
    /\ up.part_index = 1
    /\ up.part_size = 1024
    /\ Len(up.data) = 2049
    /\ result.kind = "raise"
    /\ up.hash_md5 # md5

\* The sends of the trace before position i: event i is send number C18_Nth(i).
C18_Nth(i) == Cardinality({j \in 1..(i - 1) : trace[j].e = "send"})
C18_Min(a, b) == IF a <= b THEN a ELSE b

\* C18: in an upload, the k-th send (k = 0, 1, ...) is part k with the
\* bytes [k*P, min((k+1)*P, N)) of the file, and for k > 0 it follows at
\* once the truthy acknowledgment of part k-1; in a download, the k-th send
\* asks for offset k*P and limit P, and for k > 0 it follows at once the
\* write of the bytes that answered request k-1.  The first send of a
\* transfer follows no answer.
C18_OneAtATimeInOrder ==
    /\ up.pc # "idle" =>
          \A i \in Idx : trace[i].e = "send" =>
              LET k == C18_Nth(i)
                  P == up.part_size
              IN  /\ trace[i].a.cls = "SaveFilePartRequest"
                  /\ trace[i].a.arg.file_part = k
                  /\ trace[i].a.arg.file_id = up.file_id
                  /\ trace[i].a.arg.bytes =
                         SubSeq(up.data, k * P + 1, C18_Min((k + 1) * P, Len(up.data)))
                  /\ k = 0 => \A j \in 1..(i - 1) : trace[j].e \notin {"send", "receive"}
                  /\ k > 0 =>
                        /\ trace[i - 1].e = "receive"
                        /\ trace[i - 1].b = "True"
                        /\ trace[i - 1].a.arg.file_part = k - 1
                        /\ trace[i - 2].e = "send"
                        /\ trace[i - 2].a = trace[i - 1].a
    /\ down.pc # "idle" =>
          \A i \in Idx : trace[i].e = "send" =>
              LET k == C18_Nth(i)
                  P == down.part_size
              IN  /\ trace[i].a.cls = "GetFileRequest"
                  /\ trace[i].a.arg.offset = k * P
                  /\ trace[i].a.arg.limit = P
                  /\ trace[i].a.arg.location = down.input_location
                  /\ k = 0 => \A j \in 1..(i - 1) : trace[j].e \notin {"send", "receive", "write"}
                  /\ k > 0 =>
                        /\ trace[i - 1].e = "write"
                        /\ trace[i - 2].e = "receive"
                        /\ trace[i - 1].a = trace[i - 2].b.bytes
                        /\ trace[i - 3].e = "send"
                        /\ trace[i - 3].a = trace[i - 2].a
                        /\ trace[i - 3].a.arg.offset = (k - 1) * P

\* C18 witness: a download in parts of 1024 bytes whose third request
\* (offset 2048) is out, after two answers of one and two bytes.
C18_Witness ==
    /\ pc = "get_file"
    /\ down.pc = "running"
    /\ down.part_size = 1024
    /\ Len(SelectSeq(trace, IsSend)) = 3
    /\ inflight.arg.offset = 2048
    /\ down.file.data = <<10, 20, 21>>

\* An upload in parts of 1024 bytes whose third part, of one byte, is out.
C18_ThirdPart ==
    /\ pc = "save_file_part"
    /\ up.part_size = 1024
    /\ Len(up.data) = 2049
    /\ inflight.arg.file_part = 2
    /\ Len(inflight.arg.bytes) = 1

\* The answers of the running download, and those without bytes.
C19_Answers == SelectSeq(trace, IsReceive)
C19_Empty == {k \in 1..Len(C19_Answers) : C19_Answers[k].b.bytes = <<>>}
C19_Sends == {i \in Idx : trace[i].e = "send"}
C19_Failed == \E i \in Idx : trace[i].e = "receive raises"

\* C19: download_file_loc returns on the first answer without bytes and on
\* nothing else: an empty answer is the last event before the return and no
\* request follows it; a call that has returned has received one; and as
\* long as every answer had bytes (and none was an error), whatever their
\* number n, request n + 1 is out and the call is waiting for its answer.
C19_StopsOnFirstEmpty ==
    down.pc # "idle" =>
        /\ Cardinality(C19_Empty) <= 1
        /\ C19_Empty # {} =>
              /\ C19_Empty = {Len(C19_Answers)}
              /\ Idle
              /\ result.kind = "return"
              /\ trace[Len(trace)].e = "return download_file_loc"
              /\ trace[Len(trace) - 1].e = "receive"
              /\ trace[Len(trace) - 1].b.bytes = <<>>
              /\ Cardinality(C19_Sends) = Len(C19_Answers)
        /\ (Idle /\ result.kind = "return") => C19_Empty # {}
        /\ (C19_Empty = {} /\ C19_Sends # {} /\ ~C19_Failed) =>
              /\ pc = "get_file"
              /\ down.pc = "running"
              /\ Cardinality(C19_Sends) = Len(C19_Answers) + 1
              /\ trace[Len(trace)].e = "send"

\* C19 witness: as many answers with bytes as the model's server gives, all
\* shorter than the part size, and the next request is out.
C19_Witness ==
    /\ down.pc = "running"
    /\ pc = "get_file"
    /\ Len(C19_Answers) = MaxChunks
    /\ C19_Empty = {}
    /\ down.part_size = 1024
    /\ Cardinality(C19_Sends) = MaxChunks + 1

----------------------------------------------------------------------------
\* Properties of phone_code_hashes.

\* The step ends a send_code_request for phone number p that was answered
\* with the token h.
C20_CodeSent(p, h) ==
    /\ pc = "send_code"
    /\ pc' = "idle"
    /\ result'.fn = "send_code_request"
    /\ result'.kind = "return"
    /\ inflight = SendCodeRequest(p)
    /\ trace'[Len(trace') - 2].e = "receive"
    /\ trace'[Len(trace') - 2].a = SendCodeRequest(p)
    /\ trace'[Len(trace') - 2].b = h

\* No step removes a phone number from the map, and a step changes the
\* token of a number, or adds a number, only by ending a send_code_request
\* for it that was answered with the new token.
C20_StepKeeps ==
    /\ \A p \in DOMAIN phone_code_hashes : p \in DOMAIN phone_code_hashes'
    /\ \A p \in DOMAIN phone_code_hashes' :
          (p \notin DOMAIN phone_code_hashes \/ phone_code_hashes'[p] # phone_code_hashes[p])
              => C20_CodeSent(p, phone_code_hashes'[p])
    /\ \A p \in Phones, h \in Hashes :
          C20_CodeSent(p, h) =>
              p \in DOMAIN phone_code_hashes' /\ phone_code_hashes'[p] = h

\* The sign-in request of a make_auth call carries the token the map holds.
C20_SignInToken ==
    \A i \in Idx :
        (trace[i].e = "send" /\ trace[i].a.cls = "SignInRequest") =>
            /\ trace[1].e = "call make_auth"
            /\ trace[1].a \in DOMAIN phone_code_hashes
            /\ trace[i].a = SignInRequest(trace[1].a, phone_code_hashes[trace[1].a],
                                          trace[1].b)

\* C20: the entries of phone_code_hashes are never removed: through every
\* step of connect, reconnect_to_dc, disconnect, invoke, make_auth (that
\* succeeds or fails) and send_code_request a phone number stays in the map;
\* its token changes only when a later send_code_request for it succeeds,
\* to the token of that answer; and make_auth sends the token the map
\* holds, that of the last send_code_request that succeeded for the number.
C20_EntriesStay == [][C20_StepKeeps]_vars /\ []C20_SignInToken

\* C20 witness: a second send_code_request for a number has replaced its
\* token.
C20_Witness ==
    /\ Idle
    /\ result.fn = "send_code_request"
    /\ result.kind = "return"
    /\ trace[1].a \in DOMAIN entry.phone_code_hashes
    /\ phone_code_hashes[trace[1].a] # entry.phone_code_hashes[trace[1].a]

\* A make_auth that succeeded, and one that failed, left the entry.
C20_AfterSignIn ==
    /\ Idle
    /\ result.fn = "make_auth"
    /\ result.kind = "return"
    /\ result.value = "True"
    /\ trace[1].a \in DOMAIN phone_code_hashes

----------------------------------------------------------------------------
\* Properties of the key, the transport and the sender across data centers.

\* C21 (as claimed): the persisted session never pairs the address of one
\* data center with a key negotiated with another: a persisted key was
\* negotiated at the persisted address.
C21_KeyOfPersistedDc ==
    saved.auth_key # None => saved.auth_key.dc = saved.server_address

\* The same, only where a call of the application is over.
C21_KeyOfPersistedDcAtRest ==
    Idle => C21_KeyOfPersistedDc

\* A reconnect_to_dc whose authentication failed has returned, and it has
\* left the new address persisted with the key of the old data center.
C21_ReconnectLeftOldKey ==
    /\ Idle
    /\ result.fn = "reconnect_to_dc"
    /\ result.kind = "return"
    /\ \E i \in Idx : trace[i].e = "do_authentication raises"
    /\ saved.server_address # entry.saved.server_address
    /\ saved.auth_key = entry.saved.auth_key
    /\ saved.auth_key.dc # saved.server_address

\* A later connect() has sent its request to the new data center under the
\* key of the old one.
C21_OldKeyReused ==
    /\ pc = "init_connection"
    /\ trace[1].e = "call connect"
    /\ trace[1].a = FALSE
    /\ session.auth_key.dc # transport.address
    /\ trace[Len(trace)].e = "send"
    /\ trace[Len(trace)].b.auth_key.dc # transport.address
    /\ trace[Len(trace)].b.transport = transport.id

\* C22 (as claimed): whenever a sender exists and the application can
\* invoke a request, the sender was built on the transport the client
\* holds, not on one that reconnect_to_dc has closed; and every request
\* that leaves goes through the transport the client holds at that moment.
C22_SenderOnCurrentTransport ==
    /\ (pc = "idle" /\ sender # None) =>
          /\ sender.transport = transport.id
          /\ sender.transport \notin closed
    /\ \A i \in Idx :
          trace[i].e = "send" => trace[i].b.transport = C6_TransportAt(i).id

\* reconnect_to_dc has returned after the connect inside it failed: the
\* sender is still the one built on the transport that was closed.
C22_ReconnectLeftOldSender ==
    /\ Idle
    /\ result.fn = "reconnect_to_dc"
    /\ result.kind = "return"
    /\ sender = entry.sender
    /\ sender.transport = entry.transport.id
    /\ sender.transport \in closed
    /\ transport.id # sender.transport

\* send_code_request, redirected, has sent its request again after the
\* connect inside reconnect_to_dc failed: through the closed transport.
C22_ResentOnClosedTransport ==
    /\ pc = "send_code"
    /\ trace[1].e = "call send_code_request"
    /\ \E i \in Idx : trace[i].e = "return reconnect_to_dc"
    /\ trace[Len(trace)].e = "send"
    /\ trace[Len(trace)].a = SendCodeRequest(trace[1].a)
    /\ trace[Len(trace)].b.transport \in closed
    /\ trace[Len(trace)].b.transport # transport.id

====
